---- MODULE Spec2Model ----
(***************************************************************************)
(* Signal-to-trade pipeline of gods-dream-exness.                          *)
(*                                                                         *)
(*   database.py   the trades table and the operations on it               *)
(*   monitor.py    ChannelMonitor: the message handler and _process_signal *)
(*   config.py     the trading section of the configuration                *)
(*                                                                         *)
(* trading.py (TradingEngine) and bot.py (send_trade_setup) are imported   *)
(* by monitor.py but are not among the source files; they are modelled     *)
(* from sections 4.2-4.4 and 6 of the specification.                       *)
(***************************************************************************)
EXTENDS Integers, Sequences, FiniteSets, TLC

VARIABLES
    trades,           \* rows of the trades table, in insertion order
    signals,          \* rows of the signals table, in insertion order
    performance,      \* rows of the performance table, in insertion order
    now,              \* the value datetime.now() returns
    signal_counters,  \* ChannelMonitor.signal_counters
    tasks,            \* one record per delivered message, in arrival order
    sent,             \* trade_id of every send_trade_setup that completed
    trading,          \* config.trading
    run,              \* number of times the process has been started
    running           \* the application has not been shut down

vars == <<trades, signals, performance, now, signal_counters, tasks, sent,
         trading, run, running>>

dbVars == <<trades, signals, performance, now>>
monitorVars == <<signal_counters, tasks, sent, trading, run, running>>

(***************************************************************************)
(* Bounds of the model.                                                    *)
(***************************************************************************)
MaxTime == 2          \* datetime.now() ranges over 1..MaxTime
MaxMessages == 2      \* messages delivered over all runs
MaxRecords == 2       \* record_performance calls
MaxRestarts == 1      \* process restarts

NULL == 0             \* an unset TIMESTAMP column; the clock starts at 1

Channels == {"A", "B"}

(***************************************************************************)
(* trading.py: TradingEngine.generate_trade_id (specification 4.4): a pure *)
(* function of the channel and the sequence number.                        *)
(***************************************************************************)
generate_trade_id(channel, sequenceNumber) == <<channel, sequenceNumber>>

(***************************************************************************)
(* database.py                                                             *)
(***************************************************************************)

\* Row positions selected by  WHERE trade_id = ?
RowsWithId(trade_id) == {i \in DOMAIN trades : trades[i].trade_id = trade_id}

\* The UNIQUE constraint on trades.trade_id: the INSERT raises when a row
\* with the same trade_id is stored.
\* A trades table whose trade_id column is not UNIQUE.
UniqueViolationNever(trade_data) == FALSE

UniqueViolation(trade_data) == RowsWithId(trade_data.trade_id) # {}

\* NewRow with the status taken from the caller's trade_data.
NewRowCallerStatus(trade_data) ==
    [trade_id         |-> trade_data.trade_id,
     channel          |-> trade_data.channel,
     symbol           |-> trade_data.symbol,
     action           |-> trade_data.action,
     entry_price      |-> trade_data.entry_price,
     sl_price         |-> trade_data.sl_price,
     tp1_price        |-> trade_data.tp1_price,
     tp2_price        |-> trade_data.tp2_price,
     lot_size         |-> trade_data.lot_size,
     account_currency |-> trade_data.account_currency,
     account_balance  |-> trade_data.account_balance,
     risk_percent     |-> trade_data.risk_percent,
     status           |-> trade_data.status,
     profit_pips      |-> 0,
     profit_amount    |-> 0,
     opened_at        |-> now,
     tp1_hit_at       |-> NULL,
     closed_at        |-> NULL]

\* The row save_trade inserts: the twelve caller fields, status 'open',
\* opened_at = datetime.now(), the other columns at their defaults.
NewRow(trade_data) ==
    [trade_id         |-> trade_data.trade_id,
     channel          |-> trade_data.channel,
     symbol           |-> trade_data.symbol,
     action           |-> trade_data.action,
     entry_price      |-> trade_data.entry_price,
     sl_price         |-> trade_data.sl_price,
     tp1_price        |-> trade_data.tp1_price,
     tp2_price        |-> trade_data.tp2_price,
     lot_size         |-> trade_data.lot_size,
     account_currency |-> trade_data.account_currency,
     account_balance  |-> trade_data.account_balance,
     risk_percent     |-> trade_data.risk_percent,
     status           |-> "open",
     profit_pips      |-> 0,
     profit_amount    |-> 0,
     opened_at        |-> now,
     tp1_hit_at       |-> NULL,
     closed_at        |-> NULL]

InsertTrade(trade_data) == Append(trades, NewRow(trade_data))

\* StatusUpdatedRow without the move of the second target to the entry price.
StatusUpdatedRowNoBreakeven(r, status) ==
    IF status = "tp1_hit"
    THEN [r EXCEPT !.status = status, !.tp1_hit_at = now]
    ELSE IF status = "closed"
    THEN [r EXCEPT !.status = status, !.closed_at = now]
    ELSE [r EXCEPT !.status = status]

\* The row an UPDATE of update_trade_status leaves in place of row r.
StatusUpdatedRow(r, status) ==
    IF status = "tp1_hit"
    THEN [r EXCEPT !.status = status, !.tp1_hit_at = now,
                   !.tp2_price = r.entry_price]
    ELSE IF status = "closed"
    THEN [r EXCEPT !.status = status, !.closed_at = now]
    ELSE [r EXCEPT !.status = status]

\* The row the UPDATE of update_trade_profit leaves in place of row r.
ProfitUpdatedRow(r, profit_pips, profit_amount) ==
    [r EXCEPT !.profit_pips = profit_pips, !.profit_amount = profit_amount]

\* On a stored trade_id the INSERT raises sqlite3.IntegrityError before the
\* commit and the table is left as it was.
save_trade(trade_data) ==
    /\ trades' = IF UniqueViolation(trade_data)
                 THEN trades
                 ELSE InsertTrade(trade_data)
    /\ UNCHANGED <<signals, performance, now, monitorVars>>

update_trade_status(trade_id, status) ==
    /\ trades' = [i \in DOMAIN trades |->
                    IF trades[i].trade_id = trade_id
                    THEN StatusUpdatedRow(trades[i], status)
                    ELSE trades[i]]
    /\ UNCHANGED <<signals, performance, now, monitorVars>>

update_trade_profit(trade_id, profit_pips, profit_amount) ==
    /\ trades' = [i \in DOMAIN trades |->
                    IF trades[i].trade_id = trade_id
                    THEN ProfitUpdatedRow(trades[i], profit_pips, profit_amount)
                    ELSE trades[i]]
    /\ UNCHANGED <<signals, performance, now, monitorVars>>

\* The signals table after save_signal(channel, message): one more row
\* (parsed_data is not passed by the handler and stays NULL).
save_signal(channel, message) ==
    Append(signals, [channel |-> channel, message |-> message])

\* datetime.date(): a datetime is a pair <<date, time of day>>.
Date(datetime) == datetime[1]

\* Line 157, in whole percent.
WinRate(trades_taken, trades_won) ==
    IF trades_taken > 0 THEN (trades_won * 100) \div trades_taken ELSE 0

record_performance(channel, date, trades_taken, trades_won, total_pips, total_profit) ==
    /\ Len(performance) < MaxRecords
    /\ performance' =
          Append(performance,
                 [date         |-> Date(date),
                  channel      |-> channel,
                  trades_taken |-> trades_taken,
                  trades_won   |-> trades_won,
                  total_pips   |-> total_pips,
                  total_profit |-> total_profit,
                  win_rate     |-> WinRate(trades_taken, trades_won)])
    /\ UNCHANGED <<trades, signals, now, monitorVars>>

\* datetime.now() never goes back.
Tick ==
    /\ now < MaxTime
    /\ now' = now + 1
    /\ UNCHANGED <<trades, signals, performance, monitorVars>>

(***************************************************************************)
(* The database operations under every caller: the arguments range over    *)
(* the sets below.                                                         *)
(***************************************************************************)
Actions == {"BUY", "SELL"}

\* One trade per channel, as _process_signal builds trade_data: channel A
\* carries a BUY (stop below the entry), channel B a SELL (stop above it).
DbTradeData(channel) ==
    [trade_id         |-> generate_trade_id(channel, 1),
     channel          |-> channel,
     symbol           |-> "EURUSD",
     action           |-> IF channel = "A" THEN "BUY" ELSE "SELL",
     entry_price      |-> 3,
     sl_price         |-> IF channel = "A" THEN 2 ELSE 4,
     tp1_price        |-> IF channel = "A" THEN 4 ELSE 2,
     tp2_price        |-> IF channel = "A" THEN 5 ELSE 1,
     lot_size         |-> 1,
     account_currency |-> "USD",
     account_balance  |-> 1000,
     risk_percent     |-> 1]

DbTradeIds == {generate_trade_id(c, 1) : c \in Channels}

\* The lifecycle states of specification 4.5 as the status column spells
\* them ('pending' is the column default), and one string outside them.
LifecycleStates == {"pending", "open", "tp1_hit", "closed"}
StatusInputs == LifecycleStates \cup {"cancelled"}

ProfitInputs == {<<5, 10>>, <<-5, -10>>}

Init ==
    /\ trades = <<>>
    /\ signals = <<>>
    /\ performance = <<>>
    /\ now = 1
    /\ signal_counters = [c \in Channels |-> 0]
    /\ tasks = <<>>
    /\ sent = <<>>
    /\ trading = [account_balance |-> 1000, account_currency |-> "USD",
                  risk_percentage |-> 1]
    /\ run = 1
    /\ running = TRUE

\* A caller may put a 'status' key into trade_data; save_trade does not
\* read it.
CallerStatuses == {"pending"}

SaveTradeCall ==
    \E c \in Channels, status \in CallerStatuses :
        save_trade([status |-> status] @@ DbTradeData(c))

UpdateStatusCall ==
    \E id \in DbTradeIds, status \in StatusInputs :
        update_trade_status(id, status)

UpdateProfitCall ==
    \E id \in DbTradeIds, p \in ProfitInputs :
        update_trade_profit(id, p[1], p[2])

NextDatabase ==
    \/ SaveTradeCall
    \/ UpdateStatusCall
    \/ UpdateProfitCall
    \/ Tick

SpecDatabase == Init /\ [][NextDatabase]_vars

(***************************************************************************)
(* The performance ledger under every caller of record_performance.        *)
(***************************************************************************)
\* Two datetimes of day 1 and one of day 2.
Datetimes == {<<1, 1>>, <<1, 2>>, <<2, 1>>}

\* (trades_taken, trades_won, total_pips, total_profit) of a period.
PeriodTotals == {<<0, 0, 0, 0>>, <<1, 1, 5, 10>>, <<2, 1, 10, 20>>}

RecordPerformanceCall ==
    \E c \in Channels, date \in Datetimes, t \in PeriodTotals :
        record_performance(c, date, t[1], t[2], t[3], t[4])

NextPerformance == RecordPerformanceCall

SpecPerformance == Init /\ [][NextPerformance]_vars

(***************************************************************************)
(* Claims about the trade lifecycle (database.py).                         *)
(***************************************************************************)

\* The row of DbTradeData(c) when it is stored.
Stored(c) == RowsWithId(DbTradeData(c).trade_id) # {}
Row(c) == trades[CHOOSE i \in RowsWithId(DbTradeData(c).trade_id) : TRUE]

\* C1: once a trade is 'closed', every update_trade_status call on its
\* trade_id, whatever the status, leaves status, tp2_price, tp1_hit_at and
\* closed_at as they were: the trade stays closed.
C1_ClosedIsTerminal ==
    [][\A id \in DbTradeIds, status \in StatusInputs :
          update_trade_status(id, status) =>
              \A i \in RowsWithId(id) :
                  trades[i].status = "closed" =>
                      /\ trades'[i].status = "closed"
                      /\ trades'[i].tp2_price = trades[i].tp2_price
                      /\ trades'[i].tp1_hit_at = trades[i].tp1_hit_at
                      /\ trades'[i].closed_at = trades[i].closed_at]_vars

\* Position of a status in the lifecycle pending < open < tp1_hit < closed;
\* a string outside the lifecycle has no position.
StatusRank(status) ==
    CASE status = "pending" -> 0
      [] status = "open"    -> 1
      [] status = "tp1_hit" -> 2
      [] status = "closed"  -> 3
      [] OTHER              -> -1

\* C2: over any sequence of save_trade, update_trade_status and
\* update_trade_profit calls the status of a stored trade is a lifecycle
\* state and never moves to an earlier one.
C2_StatusMonotonic ==
    [][\A i \in DOMAIN trades :
          /\ i \in DOMAIN trades'
          /\ trades'[i].status \in LifecycleStates
          /\ StatusRank(trades'[i].status) >= StatusRank(trades[i].status)]_vars

\* C3: update_trade_profit on a 'closed' trade changes nothing of it; on an
\* 'open' or 'tp1_hit' trade it sets profit_pips and profit_amount and
\* leaves every other column as it was.
C3_ProfitFrozenWhenClosed ==
    [][\A id \in DbTradeIds, p \in ProfitInputs :
          update_trade_profit(id, p[1], p[2]) =>
              \A i \in RowsWithId(id) :
                  /\ trades[i].status = "closed" => trades'[i] = trades[i]
                  /\ trades[i].status \in {"open", "tp1_hit"} =>
                        trades'[i] = [trades[i] EXCEPT !.profit_pips = p[1],
                                                       !.profit_amount = p[2]]
      ]_vars

\* C4: 'tp1_hit' on an open trade sets status 'tp1_hit' and tp2_price to the
\* trade's entry_price, with entry_price, sl_price, tp1_price and lot_size
\* as they were; 'closed' on an open or tp1_hit trade sets status 'closed',
\* and from 'open' it leaves tp2_price as it was.
C4_Lifecycle ==
    [][\A id \in DbTradeIds :
          \A i \in RowsWithId(id) :
              /\ (/\ trades[i].status = "open"
                  /\ update_trade_status(id, "tp1_hit")) =>
                        /\ trades'[i].status = "tp1_hit"
                        /\ trades'[i].tp2_price = trades[i].entry_price
                        /\ trades'[i].entry_price = trades[i].entry_price
                        /\ trades'[i].sl_price = trades[i].sl_price
                        /\ trades'[i].tp1_price = trades[i].tp1_price
                        /\ trades'[i].lot_size = trades[i].lot_size
              /\ (/\ trades[i].status \in {"open", "tp1_hit"}
                  /\ update_trade_status(id, "closed")) =>
                        /\ trades'[i].status = "closed"
                        /\ trades[i].status = "open" =>
                              trades'[i].tp2_price = trades[i].tp2_price
      ]_vars

\* Trade A went open -> tp1_hit -> closed and holds its entry price as second
\* target; trade B went open -> closed and holds its original second target.
C4_Witness ==
    /\ Stored("A") /\ Stored("B")
    /\ Row("A").status = "closed"
    /\ Row("A").tp1_hit_at # NULL
    /\ Row("A").tp2_price = Row("A").entry_price
    /\ Row("A").tp2_price # DbTradeData("A").tp2_price
    /\ Row("A").profit_pips = 0
    /\ Row("B").status = "closed"
    /\ Row("B").tp1_hit_at = NULL
    /\ Row("B").tp2_price = DbTradeData("B").tp2_price
    /\ Row("B").tp2_price # Row("B").entry_price

(***************************************************************************)
(* Message texts.  A text is modelled by what the pipeline reads of it:    *)
(* its words as written, and the prices that follow its entry, stop and    *)
(* target labels (0: the text has no such number).  Prices are in points.  *)
(***************************************************************************)
Text(words, entry, sl, tp1, tp2) ==
    [words |-> words, entry |-> entry, sl |-> sl, tp1 |-> tp1, tp2 |-> tp2]

HelloWorld   == Text({"hello", "world"}, 0, 0, 0, 0)
ImageOnly    == Text({}, 0, 0, 0, 0)      \* a photo: event.message.text is empty
BuyNoPrices  == Text({"buy", "eurusd", "now"}, 0, 0, 0, 0)
BuyEurusd    == Text({"BUY", "EURUSD", "SL", "TP"}, 300, 250, 350, 400)
SellXauusd   == Text({"short", "XAUUSD", "SL"}, 300, 330, 0, 0)
BuyWrongSide == Text({"BUY", "EURUSD", "SL"}, 300, 330, 0, 0)
BuyWideStop  == Text({"LONG", "EURUSD", "SL"}, 300, 100, 0, 0)

MessageTexts ==
    {HelloWorld, ImageOnly, BuyNoPrices, BuyEurusd, SellXauusd, BuyWrongSide,
     BuyWideStop}

\* str.upper() on the words of the texts.
Upper(w) ==
    CASE w = "hello"  -> "HELLO"
      [] w = "world"  -> "WORLD"
      [] w = "buy"    -> "BUY"
      [] w = "eurusd" -> "EURUSD"
      [] w = "now"    -> "NOW"
      [] w = "short"  -> "SHORT"
      [] OTHER        -> w

(***************************************************************************)
(* monitor.py: ChannelMonitor._is_trading_signal                           *)
(***************************************************************************)
Keywords ==
    {"BUY", "SELL", "LONG", "SHORT", "ENTRY", "SL", "TP",
     "STOP LOSS", "TAKE PROFIT", "EURUSD", "GBPUSD", "XAUUSD"}

\* _is_trading_signal with the empty string among the keywords: '' is in
\* every text.
is_trading_signal_empty_keyword(text) == TRUE

\* keyword in text: none of the upper-cased words above has a keyword as a
\* proper substring, so a keyword occurs in a text when it is one of its
\* upper-cased words.
is_trading_signal(text) ==
    \E keyword \in Keywords : keyword \in {Upper(w) : w \in text.words}

(***************************************************************************)
(* trading.py: TradingEngine (specification 4.2 and 4.3).                  *)
(***************************************************************************)
\* parse_signal's "no signal" result.
None == [symbol |-> "", action |-> "", entry |-> 0, sl |-> 0,
         tp1 |-> 0, tp2 |-> 0]

KnownInstruments == {"EURUSD", "GBPUSD", "XAUUSD"}

\* Section 3: entry # sl and the stop on the losing side of the entry.
DirectionOk(action, entry, sl) ==
    /\ entry # sl
    /\ action = "BUY" => sl < entry
    /\ action = "SELL" => sl > entry

ParsedSymbols(text) == {Upper(w) : w \in text.words} \cap KnownInstruments

ParsedActions(text) ==
    {a \in Actions :
        \E w \in text.words :
            \/ a = "BUY" /\ Upper(w) \in {"BUY", "LONG"}
            \/ a = "SELL" /\ Upper(w) \in {"SELL", "SHORT"}}

\* A missing symbol, action, entry or stop, or a stop on the wrong side of
\* the entry, is a parse failure; absent targets are left 0.
parse_signal(text) ==
    IF \/ Cardinality(ParsedSymbols(text)) # 1
       \/ Cardinality(ParsedActions(text)) # 1
       \/ text.entry = 0
       \/ text.sl = 0
    THEN None
    ELSE LET symbol == CHOOSE x \in ParsedSymbols(text) : TRUE
             action == CHOOSE a \in ParsedActions(text) : TRUE
         IN  IF DirectionOk(action, text.entry, text.sl)
             THEN [symbol |-> symbol, action |-> action,
                   entry |-> text.entry, sl |-> text.sl,
                   tp1 |-> text.tp1, tp2 |-> text.tp2]
             ELSE None

\* Points per pip, by instrument.
PipSize(symbol) == IF symbol = "XAUUSD" THEN 10 ELSE 1

\* Value of one pip for one lot, in the account's currency.
PipValuePerLot(symbol, account_currency) ==
    IF account_currency = "USD" THEN 10 ELSE 9

Abs(x) == IF x < 0 THEN -x ELSE x

StopPips(entry, sl, symbol) == Abs(entry - sl) \div PipSize(symbol)

\* The lot size in hundredths of a lot (the minimum increment), rounded down.
LotSize(balance, risk_percent, entry, sl, symbol, account_currency) ==
    (((balance * risk_percent) \div 100) * 100)
        \div (StopPips(entry, sl, symbol)
                * PipValuePerLot(symbol, account_currency))

\* calculate_lot_size fails on an unknown instrument, on a stop distance of
\* zero, and when the lot size rounds down to nothing.
SizingFails(balance, risk_percent, entry, sl, symbol, account_currency) ==
    \/ symbol \notin KnownInstruments
    \/ StopPips(entry, sl, symbol) <= 0
    \/ LotSize(balance, risk_percent, entry, sl, symbol, account_currency) <= 0

(***************************************************************************)
(* monitor.py: ChannelMonitor                                              *)
(*                                                                         *)
(* The client is built without sequential_updates, so every NewMessage     *)
(* event is dispatched in a task of its own.  The event loop starts the    *)
(* tasks in the order the events arrived, and a task runs until it awaits: *)
(* the handler's only suspension is await send_trade_setup(trade_data).    *)
(*                                                                         *)
(* A task record holds the message and the position of its handler:        *)
(*   queued        delivered, handler not started                          *)
(*   ignored       _is_trading_signal was false                            *)
(*   parse_failed  parse_signal returned no signal                         *)
(*   size_failed   calculate_lot_size raised                               *)
(*   save_failed   save_trade raised                                       *)
(*   sending       suspended in await send_trade_setup                     *)
(*   send_failed   send_trade_setup raised                                 *)
(*   done          line 171 reached                                        *)
(*   lost          the process ended before the handler finished           *)
(* seq is the counter value the handler passed to generate_trade_id (0: it *)
(* did not get there), parsed the result of parse_signal, run the process  *)
(* run that received the message.                                          *)
(***************************************************************************)
NewTask(channel, text) ==
    [channel |-> channel, text |-> text, pc |-> "queued", seq |-> 0,
     parsed |-> None, run |-> run]

\* Telethon delivers a message of a monitored channel.
Deliver(texts) ==
    /\ running
    /\ Len(tasks) < MaxMessages
    /\ \E channel \in Channels, text \in texts :
          tasks' = Append(tasks, NewTask(channel, text))
    /\ UNCHANGED <<dbVars, signal_counters, sent, trading, run, running>>

NewMessage == Deliver(MessageTexts)

QueuedTasks == {i \in DOMAIN tasks : tasks[i].pc = "queued"}

\* NextToRun with the handlers started in any order.
NextToRunAnyOrder == QueuedTasks

\* The handlers start in arrival order.
NextToRun == {i \in QueuedTasks : \A j \in QueuedTasks : i <= j}

\* Where the handler of a message gets to before it suspends or returns.
Stage(channel, text, signal_data, trade_data) ==
    IF ~is_trading_signal(text) THEN "ignored"
    ELSE IF signal_data = None THEN "parse_failed"
    ELSE IF SizingFails(trading.account_balance, trading.risk_percentage,
                        signal_data.entry, signal_data.sl,
                        signal_data.symbol, trading.account_currency)
         THEN "size_failed"
    ELSE IF UniqueViolation(trade_data) THEN "save_failed"
    ELSE "sending"

\* SignalSaved with save_signal called after a successful parse_signal.
SignalSavedAfterParse(stage) == stage \notin {"ignored", "parse_failed"}

\* Line 86 is executed when _is_trading_signal was true.
SignalSaved(stage) == stage # "ignored"

\* CounterIncremented with line 126 moved above the test of line 118.
CounterIncrementedBeforeParse(stage) ==
    stage \in {"parse_failed", "size_failed", "save_failed", "sending"}

\* Line 126 is executed when parse_signal returned a signal.
CounterIncremented(stage) ==
    stage \in {"size_failed", "save_failed", "sending"}

\* TradeData with the entry and the stop exchanged.
TradeDataSwapped(channel, trade_id, signal_data, lot_size) ==
    [trade_id         |-> trade_id,
     channel          |-> channel,
     symbol           |-> signal_data.symbol,
     action           |-> signal_data.action,
     entry_price      |-> signal_data.sl,
     sl_price         |-> signal_data.entry,
     tp1_price        |-> signal_data.tp1,
     tp2_price        |-> signal_data.tp2,
     lot_size         |-> lot_size,
     account_currency |-> trading.account_currency,
     account_balance  |-> trading.account_balance,
     risk_percent     |-> trading.risk_percentage]

\* TradeData with the account settings kept from the start of the process.
TradeDataCachedConfig(channel, trade_id, signal_data, lot_size) ==
    [trade_id         |-> trade_id,
     channel          |-> channel,
     symbol           |-> signal_data.symbol,
     action           |-> signal_data.action,
     entry_price      |-> signal_data.entry,
     sl_price         |-> signal_data.sl,
     tp1_price        |-> signal_data.tp1,
     tp2_price        |-> signal_data.tp2,
     lot_size         |-> lot_size,
     account_currency |-> "USD",
     account_balance  |-> 1000,
     risk_percent     |-> 1]

\* Lines 149-162: the trade_data dictionary.
TradeData(channel, trade_id, signal_data, lot_size) ==
    [trade_id         |-> trade_id,
     channel          |-> channel,
     symbol           |-> signal_data.symbol,
     action           |-> signal_data.action,
     entry_price      |-> signal_data.entry,
     sl_price         |-> signal_data.sl,
     tp1_price        |-> signal_data.tp1,
     tp2_price        |-> signal_data.tp2,
     lot_size         |-> lot_size,
     account_currency |-> trading.account_currency,
     account_balance  |-> trading.account_balance,
     risk_percent     |-> trading.risk_percentage]

\* handler and _process_signal for task i, up to await send_trade_setup,
\* with signal_data the result of parse_signal.
Handler(i, signal_data) ==
    LET channel    == tasks[i].channel
        text       == tasks[i].text
        counter    == signal_counters[channel] + 1
        trade_id   == generate_trade_id(channel, counter)
        lot_size   == LotSize(trading.account_balance,
                              trading.risk_percentage,
                              signal_data.entry, signal_data.sl,
                              signal_data.symbol, trading.account_currency)
        trade_data == TradeData(channel, trade_id, signal_data, lot_size)
        stage      == Stage(channel, text, signal_data, trade_data)
    IN  /\ signals' = IF SignalSaved(stage)
                      THEN save_signal(channel, text)
                      ELSE signals
        /\ signal_counters' =
              IF CounterIncremented(stage)
              THEN [signal_counters EXCEPT ![channel] = counter]
              ELSE signal_counters
        /\ trades' = IF stage = "sending"
                     THEN InsertTrade(trade_data)
                     ELSE trades
        /\ tasks' = [tasks EXCEPT ![i] =
                        [@ EXCEPT !.pc = stage,
                                  !.seq = IF CounterIncremented(stage)
                                          THEN counter ELSE 0,
                                  !.parsed = IF stage = "ignored"
                                             THEN None ELSE signal_data]]
        /\ UNCHANGED <<performance, now, sent, trading, run, running>>

HandlerStart ==
    \E i \in NextToRun : Handler(i, parse_signal(tasks[i].text))

\* SendComplete with a failed notification undoing the trade: the row is
\* deleted and the counter taken back.
SendCompleteRollsBack ==
    \E i \in DOMAIN tasks, ok \in BOOLEAN :
        /\ tasks[i].pc = "sending"
        /\ tasks' = [tasks EXCEPT ![i].pc = IF ok THEN "done" ELSE "send_failed"]
        /\ sent' = IF ok
                   THEN Append(sent, generate_trade_id(tasks[i].channel,
                                                       tasks[i].seq))
                   ELSE sent
        /\ trades' = IF ok
                     THEN trades
                     ELSE SelectSeq(trades,
                            LAMBDA r : r.trade_id #
                                generate_trade_id(tasks[i].channel, tasks[i].seq))
        /\ signal_counters' =
              IF ok \/ signal_counters[tasks[i].channel] = 0
              THEN signal_counters
              ELSE [signal_counters EXCEPT ![tasks[i].channel] = @ - 1]
        /\ UNCHANGED <<signals, performance, now, trading, run, running>>

\* SendComplete with the notification also sent for a message whose
\* save_trade raised.
SendCompleteAfterFailedSave ==
    \E i \in DOMAIN tasks, ok \in BOOLEAN :
        /\ tasks[i].pc \in {"sending", "save_failed"}
        /\ tasks' = [tasks EXCEPT ![i].pc = IF ok THEN "done" ELSE "send_failed"]
        /\ sent' = IF ok
                   THEN Append(sent, generate_trade_id(tasks[i].channel,
                                                       tasks[i].seq))
                   ELSE sent
        /\ UNCHANGED <<dbVars, signal_counters, trading, run, running>>

\* bot.py: send_trade_setup returns or raises; line 173 catches.
SendComplete ==
    \E i \in DOMAIN tasks, ok \in BOOLEAN :
        /\ tasks[i].pc = "sending"
        /\ tasks' = [tasks EXCEPT ![i].pc = IF ok THEN "done" ELSE "send_failed"]
        /\ sent' = IF ok
                   THEN Append(sent, generate_trade_id(tasks[i].channel,
                                                       tasks[i].seq))
                   ELSE sent
        /\ UNCHANGED <<dbVars, signal_counters, trading, run, running>>

\* The process ends and is started again: ChannelMonitor() is constructed
\* anew (line 177), data/trading.db keeps its rows, the handlers that had
\* not finished are gone.
Restart ==
    /\ run <= MaxRestarts
    /\ run' = run + 1
    /\ signal_counters' = [c \in Channels |-> 0]
    /\ tasks' = [i \in DOMAIN tasks |->
                    IF tasks[i].pc \in {"queued", "sending"}
                    THEN [tasks[i] EXCEPT !.pc = "lost"]
                    ELSE tasks[i]]
    /\ UNCHANGED <<dbVars, sent, trading, running>>

\* main.py, lifespan, lines 61-69: the tasks of active_tasks are cancelled
\* and lifespan returns without awaiting anything.  The handler tasks are not
\* in active_tasks; the server exits and the event loop is closed under
\* them: a handler that has not started never runs, a handler suspended in
\* await send_trade_setup gets CancelledError, which except Exception
\* (line 173) does not catch.  A notification that completes before the loop
\* is closed is a SendComplete step before this one.
Shutdown ==
    /\ running
    /\ running' = FALSE
    /\ tasks' = [i \in DOMAIN tasks |->
                    IF tasks[i].pc \in {"queued", "sending"}
                    THEN [tasks[i] EXCEPT !.pc = "lost"]
                    ELSE tasks[i]]
    /\ UNCHANGED <<dbVars, signal_counters, sent, trading, run>>

NextMonitor ==
    \/ NewMessage
    \/ HandlerStart
    \/ SendComplete
    \/ Restart

SpecMonitor == Init /\ [][NextMonitor]_vars

\* One run of the process, ended by a shutdown of the application.
NextShutdown ==
    \/ NewMessage
    \/ HandlerStart
    \/ SendComplete
    \/ Shutdown

SpecShutdown == Init /\ [][NextShutdown]_vars

(***************************************************************************)
(* The pipeline with a parser that is not trusted: parse_signal may return *)
(* no signal or any signal, whatever the text.                             *)
(***************************************************************************)
ParserOutputs ==
    {None} \cup
    {[symbol |-> "EURUSD", action |-> "BUY", entry |-> 300, sl |-> sl,
      tp1 |-> 0, tp2 |-> 0] : sl \in {250, 300, 330}}

HandlerStartAnyParser ==
    \E i \in NextToRun, signal_data \in ParserOutputs : Handler(i, signal_data)

NewMessageAnyParser == Deliver({HelloWorld, BuyEurusd})

NextAnyParser ==
    \/ NewMessageAnyParser
    \/ HandlerStartAnyParser
    \/ SendComplete
    \/ Restart

SpecAnyParser == Init /\ [][NextAnyParser]_vars

(***************************************************************************)
(* Claims about the pipeline (monitor.py).                                 *)
(***************************************************************************)

\* The handler of task i stored its trade.
Saved(i) ==
    \/ tasks[i].pc \in {"sending", "done", "send_failed"}
    \/ tasks[i].pc = "lost" /\ tasks[i].seq > 0

TaskTradeId(i) == generate_trade_id(tasks[i].channel, tasks[i].seq)

\* Position of the row task i stored.
RowOf(i) == CHOOSE r \in DOMAIN trades : trades[r].trade_id = TaskTradeId(i)

\* C5: every trade the pipeline persists has entry_price # sl_price, the
\* stop below the entry for a BUY and above it for a SELL, whatever
\* parse_signal returned.
C5_DirectionInvariant ==
    \A r \in DOMAIN trades :
        DirectionOk(trades[r].action, trades[r].entry_price, trades[r].sl_price)

\* C5 as amended: every persisted trade carries the symbol, action, entry
\* and stop of the signal parse_signal returned for its message, and has
\* entry_price # sl_price; every handler that got as far as save_trade
\* without an exception has its row.
C5_TradeMirrorsParsedSignal ==
    /\ \A r \in DOMAIN trades :
          /\ trades[r].entry_price # trades[r].sl_price
          /\ \E i \in DOMAIN tasks :
                /\ Saved(i)
                /\ TaskTradeId(i) = trades[r].trade_id
                /\ trades[r].channel = tasks[i].channel
                /\ trades[r].symbol = tasks[i].parsed.symbol
                /\ trades[r].action = tasks[i].parsed.action
                /\ trades[r].entry_price = tasks[i].parsed.entry
                /\ trades[r].sl_price = tasks[i].parsed.sl
    /\ \A i \in DOMAIN tasks :
          Saved(i) => \E r \in DOMAIN trades : trades[r].trade_id = TaskTradeId(i)

\* A BUY with its stop above the entry is stored, and a signal with
\* entry = sl was stopped by the sizing.
C5_Witness ==
    /\ \E r \in DOMAIN trades :
          /\ trades[r].action = "BUY"
          /\ trades[r].sl_price > trades[r].entry_price
    /\ \E i \in DOMAIN tasks :
          /\ tasks[i].pc = "size_failed"
          /\ tasks[i].parsed # None
          /\ tasks[i].parsed.entry = tasks[i].parsed.sl

\* C6: the step in which a handler finds that parse_signal returned no
\* signal stores no trade, sends no notification and changes no counter,
\* and that handler does nothing afterwards.
C6_ParseFailureChangesNothing ==
    [][\A i \in DOMAIN tasks :
          /\ (tasks[i].pc = "queued" /\ tasks'[i].pc = "parse_failed") =>
                /\ signal_counters' = signal_counters
                /\ trades' = trades
                /\ sent' = sent
                /\ tasks'[i].seq = 0
          /\ tasks[i].pc = "parse_failed" => tasks'[i] = tasks[i]]_vars

\* A message whose parsing failed, and after it on the same channel in the
\* same run an accepted message that got sequence number 1.
C6_Witness ==
    \E i, j \in DOMAIN tasks :
        /\ i < j
        /\ tasks[i].channel = tasks[j].channel
        /\ tasks[i].run = tasks[j].run
        /\ tasks[i].pc = "parse_failed"
        /\ tasks[i].text = BuyNoPrices
        /\ tasks[j].pc = "done"
        /\ tasks[j].seq = 1

\* C7: the step in which calculate_lot_size fails stores no trade, sends no
\* notification and leaves every signal counter at the value it had before
\* the message.
C7_SizingFailureChangesNothing ==
    [][\A i \in DOMAIN tasks :
          (tasks[i].pc = "queued" /\ tasks'[i].pc = "size_failed") =>
              /\ signal_counters' = signal_counters
              /\ trades' = trades
              /\ sent' = sent]_vars

\* C8: for two messages of one run on one channel whose handlers got a
\* sequence number, the earlier message has the smaller number, its handler
\* ran first, and when both trades were stored the earlier one's row was
\* inserted first.
C8_SequenceFollowsArrival ==
    \A i, j \in DOMAIN tasks :
        (/\ i < j
         /\ tasks[i].channel = tasks[j].channel
         /\ tasks[i].run = tasks[j].run
         /\ tasks[j].seq > 0) =>
            /\ tasks[i].pc # "queued"
            /\ tasks[i].seq > 0 => tasks[i].seq < tasks[j].seq
            /\ (Saved(i) /\ Saved(j)) => RowOf(i) < RowOf(j)

\* The earlier message's handler is suspended in send_trade_setup while the
\* later message on the same channel has been given the next number and
\* its trade stored after the earlier one's.
C8_Witness ==
    \E i, j \in DOMAIN tasks :
        /\ i < j
        /\ tasks[i].channel = tasks[j].channel
        /\ tasks[i].run = tasks[j].run
        /\ tasks[i].pc = "sending"
        /\ tasks[j].pc = "done"
        /\ tasks[i].seq = 1
        /\ tasks[j].seq = 2
        /\ RowOf(i) < RowOf(j)

\* C9: no stage of a message starts while an earlier message of the same
\* channel has not finished its notification.
C9_NoInterleavingWithinChannel ==
    \A i, j \in DOMAIN tasks :
        (/\ i < j
         /\ tasks[i].channel = tasks[j].channel
         /\ tasks[i].pc = "sending") => tasks[j].pc = "queued"

\* C10: no two calls of generate_trade_id, in this run or an earlier one,
\* have the same channel and sequence number: on one channel a later
\* message gets a greater number than every earlier one.
C10_SequenceNeverReused ==
    \A i, j \in DOMAIN tasks :
        (/\ i < j
         /\ tasks[i].channel = tasks[j].channel
         /\ tasks[i].seq > 0
         /\ tasks[j].seq > 0) => tasks[i].seq < tasks[j].seq

\* C11: the handler of a message for which _is_trading_signal is false
\* ("hello world", an image with no text) saves no signal, stores no trade,
\* sends no notification and changes no counter, then and afterwards.
C11_NonSignalChangesNothing ==
    [][\A i \in DOMAIN tasks :
          /\ (/\ tasks[i].pc = "queued"
              /\ tasks'[i].pc \notin {"queued", "lost"}
              /\ tasks[i].text \in {HelloWorld, ImageOnly}) =>
                tasks'[i].pc = "ignored"
          /\ (tasks[i].pc = "queued" /\ tasks'[i].pc = "ignored") =>
                /\ signals' = signals
                /\ trades' = trades
                /\ sent' = sent
                /\ signal_counters' = signal_counters
          /\ tasks[i].pc = "ignored" => tasks'[i] = tasks[i]]_vars

\* "hello world" and an image-only message have both been handled and
\* nothing is stored, sent or counted.
C11_Witness ==
    /\ \E i, j \in DOMAIN tasks :
          /\ tasks[i].text = HelloWorld /\ tasks[i].pc = "ignored"
          /\ tasks[j].text = ImageOnly /\ tasks[j].pc = "ignored"
          /\ tasks[i].channel = tasks[j].channel
    /\ signals = <<>>
    /\ trades = <<>>
    /\ sent = <<>>
    /\ \A c \in Channels : signal_counters[c] = 0

\* The handler of task i has run.
Started(i) ==
    /\ tasks[i].pc # "queued"
    /\ ~(tasks[i].pc = "lost" /\ tasks[i].seq = 0)

\* The messages classified as signals whose handler has run.
ClassifiedTasks == {i \in DOMAIN tasks : Started(i) /\ tasks[i].pc # "ignored"}

\* C12: the signals table holds, in the order of handling, exactly one row
\* for each message classified as a signal, with its channel and raw text,
\* whatever became of the message afterwards (parse, sizing, save_trade or
\* notification failed, or the process ended).
C12_RawSignalSavedOnce ==
    /\ Len(signals) = Cardinality(ClassifiedTasks)
    /\ \A i \in ClassifiedTasks :
          signals[Cardinality({k \in ClassifiedTasks : k <= i})] =
              [channel |-> tasks[i].channel, message |-> tasks[i].text]

\* A message whose parsing failed and one whose notification failed each
\* have their one row.
C12_Witness ==
    /\ Len(signals) = 2
    /\ tasks[1].pc = "parse_failed"
    /\ tasks[2].pc = "send_failed"
    /\ signals[1].message = tasks[1].text
    /\ signals[2].message = BuyEurusd

\* C13: a row save_trade inserts has status 'open' whatever status the
\* caller's trade_data names, profit_pips = profit_amount = 0 and tp1_hit_at
\* and closed_at unset; profit_pips and profit_amount of a stored trade
\* change only in an update_trade_profit call on its trade_id, and no
\* update_trade_status call changes them.
C13_NewTradeDefaults ==
    [][/\ Len(trades') > Len(trades) =>
            /\ trades'[Len(trades')].status = "open"
            /\ trades'[Len(trades')].profit_pips = 0
            /\ trades'[Len(trades')].profit_amount = 0
            /\ trades'[Len(trades')].tp1_hit_at = NULL
            /\ trades'[Len(trades')].closed_at = NULL
       /\ \A i \in DOMAIN trades :
            (\/ trades'[i].profit_pips # trades[i].profit_pips
             \/ trades'[i].profit_amount # trades[i].profit_amount) =>
                /\ \E p \in ProfitInputs :
                      /\ update_trade_profit(trades[i].trade_id, p[1], p[2])
                      /\ trades'[i].profit_pips = p[1]
                      /\ trades'[i].profit_amount = p[2]
                /\ \A id \in DbTradeIds, status \in StatusInputs :
                      ~update_trade_status(id, status)
      ]_vars

\* Trade A has gone through tp1_hit and closed with its profit still 0;
\* trade B is open with the profit an update_trade_profit call gave it.
C13_Witness ==
    /\ Stored("A") /\ Stored("B")
    /\ Row("A").status = "closed"
    /\ Row("A").tp1_hit_at # NULL
    /\ Row("A").profit_pips = 0
    /\ Row("A").profit_amount = 0
    /\ Row("B").status = "open"
    /\ Row("B").tp1_hit_at = NULL
    /\ Row("B").closed_at = NULL
    /\ Row("B").profit_pips = 5
    /\ Row("B").profit_amount = 10

\* C14: the step in which send_trade_setup fails leaves the stored trade,
\* the counters and the signals table as they were; the step in which
\* save_trade fails leaves the channel's counter at the incremented value
\* given to generate_trade_id; a handler that failed there does nothing
\* more (its message is not parsed again), and within a run no counter
\* goes down.
C14_FailureKeepsIdentity ==
    [][/\ \A i \in DOMAIN tasks :
            /\ (tasks[i].pc = "sending" /\ tasks'[i].pc = "send_failed") =>
                  /\ trades' = trades
                  /\ \E r \in DOMAIN trades :
                        trades[r].trade_id =
                            generate_trade_id(tasks[i].channel, tasks[i].seq)
                  /\ signal_counters' = signal_counters
                  /\ signals' = signals
                  /\ tasks'[i].seq = tasks[i].seq
                  /\ tasks'[i].parsed = tasks[i].parsed
            /\ (tasks[i].pc = "queued" /\ tasks'[i].pc = "save_failed") =>
                  /\ trades' = trades
                  /\ signal_counters'[tasks[i].channel] =
                        signal_counters[tasks[i].channel] + 1
                  /\ tasks'[i].seq = signal_counters'[tasks[i].channel]
            /\ tasks[i].pc \in {"send_failed", "save_failed"} =>
                  tasks'[i] = tasks[i]
       /\ run' = run =>
            \A c \in Channels : signal_counters'[c] >= signal_counters[c]
      ]_vars

\* The first message's notification failed and its trade is stored; after
\* a restart the second message's save_trade failed and the counter stays 1.
C14_Witness ==
    /\ Len(tasks) = 2
    /\ tasks[1].pc = "send_failed"
    /\ tasks[2].pc = "save_failed"
    /\ tasks[2].seq = 1
    /\ signal_counters[tasks[2].channel] = 1
    /\ Len(trades) = 1
    /\ trades[1].trade_id = generate_trade_id(tasks[1].channel, tasks[1].seq)
    /\ sent = <<>>

\* The handler of task i ended in a failure.
Failed(i) ==
    tasks[i].pc \in {"parse_failed", "size_failed", "save_failed", "send_failed"}

\* A text that is classified as a signal, parses and can be sized.
ValidSignal(text) ==
    /\ is_trading_signal(text)
    /\ parse_signal(text) # None
    /\ ~SizingFails(trading.account_balance, trading.risk_percentage,
                    parse_signal(text).entry, parse_signal(text).sl,
                    parse_signal(text).symbol, trading.account_currency)

\* C15: every handler that has run has come to an end or to its await, and
\* after a message whose processing failed every later valid signal, on
\* the same channel or another, whose handler has run has its trade
\* stored.
C15_LaterValidSignalSaved ==
    \A i, j \in DOMAIN tasks :
        (/\ i < j
         /\ Failed(i)
         /\ Started(j)
         /\ ValidSignal(tasks[j].text)) => Saved(j)

\* C16: in every step each of opened_at, tp1_hit_at and closed_at of a
\* stored trade that is already set keeps its value, and afterwards the
\* timestamps that are set are in the order opened_at <= tp1_hit_at <=
\* closed_at.
C16_TimestampsSetOnce ==
    [][\A i \in DOMAIN trades :
          /\ trades[i].opened_at # NULL =>
                 trades'[i].opened_at = trades[i].opened_at
          /\ trades[i].tp1_hit_at # NULL =>
                 trades'[i].tp1_hit_at = trades[i].tp1_hit_at
          /\ trades[i].closed_at # NULL =>
                 trades'[i].closed_at = trades[i].closed_at
          /\ trades'[i].tp1_hit_at # NULL =>
                 trades'[i].opened_at <= trades'[i].tp1_hit_at
          /\ trades'[i].closed_at # NULL =>
                 trades'[i].opened_at <= trades'[i].closed_at
          /\ (trades'[i].tp1_hit_at # NULL /\ trades'[i].closed_at # NULL) =>
                 trades'[i].tp1_hit_at <= trades'[i].closed_at
      ]_vars

\* The trades the pipeline has stored on a channel in the current run.
TradesCreatedThisRun(channel) ==
    {i \in DOMAIN tasks :
        tasks[i].run = run /\ tasks[i].channel = channel /\ Saved(i)}

\* C17: at any time the signal counter of each channel equals the number
\* of trades the pipeline has created on that channel in the current run.
C17_CounterCountsTrades ==
    \A c \in Channels :
        signal_counters[c] = Cardinality(TradesCreatedThisRun(c))

\* C18: no two stored trades share a trade_id and the trade_id of a stored
\* trade never changes: a step that changes the table keeps every row and
\* its trade_id in place, is not a save_trade with the trade_id of a stored
\* row (whatever the other fields of its trade_data), and leaves all rows
\* with different trade_ids.
C18_TradeIdUniqueImmutable ==
    [][trades' # trades =>
       /\ Len(trades') >= Len(trades)
       /\ \A i \in DOMAIN trades : trades'[i].trade_id = trades[i].trade_id
       /\ \A i, j \in DOMAIN trades' :
              trades'[i].trade_id = trades'[j].trade_id => i = j
       /\ \A i \in DOMAIN trades : ~save_trade(trades[i])
      ]_vars

\* Both trades are stored, trade A has been updated by update_trade_status
\* and update_trade_profit after its creation, and each still has its own
\* trade_id.
C18_Witness ==
    /\ Len(trades) = 2
    /\ Stored("A") /\ Stored("B")
    /\ Row("A").status = "tp1_hit"
    /\ Row("A").profit_pips # 0
    /\ Row("A").tp1_hit_at > Row("A").opened_at

(***************************************************************************)
(* config.py: Config.update, called while the pipeline runs.  config is    *)
(* the one Config object of the process and config.trading returns the     *)
(* dictionary update writes to.                                            *)
(***************************************************************************)
\* (section, key, value) arguments: the three trading settings, a key the
\* trading section does not have, and a key of another section.
ConfigInputs ==
    {<<"trading", "account_balance", 2000>>,
     <<"trading", "risk_percentage", 2>>,
     <<"trading", "account_currency", "EUR">>,
     <<"trading", "leverage", 100>>,
     <<"system", "log_level", "DEBUG">>}

\* Of the configuration only the trading section is state of the model: an
\* update of another section leaves trading as it is.
update(section, key, value) ==
    /\ trading' = IF section = "trading" /\ key \in DOMAIN trading
                  THEN [trading EXCEPT ![key] = value]
                  ELSE trading
    /\ UNCHANGED <<dbVars, signal_counters, tasks, sent, run, running>>

ConfigUpdate ==
    \E input \in ConfigInputs : update(input[1], input[2], input[3])

NewMessageConfig == Deliver({BuyEurusd, SellXauusd})

NextConfig ==
    \/ NewMessageConfig
    \/ HandlerStart
    \/ SendComplete
    \/ ConfigUpdate

SpecConfig == Init /\ [][NextConfig]_vars

\* C19: a step that stores a trade records the account_balance,
\* account_currency and risk_percentage the configuration holds at that
\* step and the lot size computed from them, and every step, a
\* Config.update included, leaves account_balance, account_currency,
\* risk_percent and lot_size of the trades already stored as they were.
C19_ConfigReadAtProcessing ==
    [][/\ \A r \in DOMAIN trades :
              /\ trades'[r].account_balance = trades[r].account_balance
              /\ trades'[r].account_currency = trades[r].account_currency
              /\ trades'[r].risk_percent = trades[r].risk_percent
              /\ trades'[r].lot_size = trades[r].lot_size
       /\ Len(trades') > Len(trades) =>
              LET row == trades'[Len(trades')]
              IN  /\ row.account_balance = trading.account_balance
                  /\ row.account_currency = trading.account_currency
                  /\ row.risk_percent = trading.risk_percentage
                  /\ row.lot_size =
                         LotSize(trading.account_balance,
                                 trading.risk_percentage,
                                 row.entry_price, row.sl_price,
                                 row.symbol, trading.account_currency)
      ]_vars

\* A trade stored before Config.update raised the balance and a trade of
\* the same signal text stored after it: the first keeps the old balance
\* and lot size, the second has the new ones.
C19_Witness ==
    /\ Len(trades) = 2
    /\ trades[1].account_balance = 1000
    /\ trades[2].account_balance = 2000
    /\ trading.account_balance = 2000
    /\ trades[1].entry_price = trades[2].entry_price
    /\ trades[1].sl_price = trades[2].sl_price
    /\ trades[1].symbol = trades[2].symbol
    /\ trades[1].lot_size < trades[2].lot_size

\* C20: the performance ledger is append-only with at most one record per
\* (date, channel): every step leaves the stored records as they were, and
\* afterwards no two records have the same date and channel.
C20_OneRecordPerDateChannel ==
    [][/\ \A i \in DOMAIN performance : performance'[i] = performance[i]
       /\ \A i, j \in DOMAIN performance' :
              (/\ performance'[i].date = performance'[j].date
               /\ performance'[i].channel = performance'[j].channel) => i = j
      ]_vars

\* C21: once the application has shut down, every message whose processing
\* had started has completed its stages: none was cut after its counter
\* increment and save_trade and before the end of its notification.
C21_ShutdownLetsInFlightFinish ==
    ~running => \A i \in DOMAIN tasks : Started(i) => tasks[i].pc # "lost"

\* C22: a notification is sent only for a trade save_trade has stored: a
\* handler gets to send_trade_setup only in the step in which its save_trade
\* added the row of its trade_id, a completed notification is that of a
\* handler suspended in send_trade_setup and carries the trade_id of its
\* stored row, and a message whose save_trade failed stays without one.
C22_NotifyOnlyAfterSave ==
    [][/\ \A i \in DOMAIN tasks :
              /\ (tasks[i].pc # "sending" /\ tasks'[i].pc = "sending") =>
                     /\ tasks[i].pc = "queued"
                     /\ Len(trades') = Len(trades) + 1
                     /\ trades'[Len(trades')].trade_id =
                            generate_trade_id(tasks'[i].channel, tasks'[i].seq)
                     /\ \A r \in DOMAIN trades :
                            trades[r].trade_id # trades'[Len(trades')].trade_id
              /\ tasks[i].pc = "save_failed" => tasks'[i].pc = "save_failed"
       /\ sent' # sent =>
              \E i \in DOMAIN tasks :
                  /\ tasks[i].pc = "sending"
                  /\ tasks'[i].pc = "done"
                  /\ sent' = Append(sent, TaskTradeId(i))
                  /\ \E r \in DOMAIN trades : trades[r].trade_id = TaskTradeId(i)
      ]_vars

\* The notification of trade A-1 was sent in the first run; in the second
\* run a message received the same trade_id, its save_trade failed, and no
\* second notification exists.
C22_Witness ==
    /\ Len(tasks) = 2
    /\ tasks[1].pc = "done" /\ tasks[1].run = 1
    /\ tasks[2].pc = "save_failed" /\ tasks[2].run = 2
    /\ TaskTradeId(1) = TaskTradeId(2)
    /\ sent = <<TaskTradeId(1)>>
    /\ Len(trades) = 1

====
